---- MODULE Spec2Model ----
(***************************************************************************)
(* Model of validateOrder (cart/src/cart/cart.rest.service.ts): the cart   *)
(* service's pre-checkout validation.  One catalog lookup is issued per    *)
(* cart line through async.map; when every lookup has called back, the     *)
(* final callback joins the results to the cart lines by article id and    *)
(* fills req.validation with errors and warnings, then calls next().       *)
(***************************************************************************)
EXTENDS Integers, Sequences, FiniteSets, TLC

\* ---------------------------------------------------------------- bounds
MaxLines == 3
MaxQuantity == 1
MaxStock == 2

ArticleIds == {"A", "B", "C"}

\* ------------------------------------------------------- JavaScript values
\* data.result of a 404 answer (or of an empty body): null
Null == [tag |-> "null"]
\* what Array.prototype.find returns when nothing matches
Undefined == [tag |-> "undefined"]
\* an array slot async.map has not filled yet
Hole == [tag |-> "hole"]
\* the TypeError raised by reading ._id of null / undefined
TypeError == [tag |-> "TypeError"]
\* an object without an _id: the catch handler's placeholder, or a 2xx body
\* that is not an article
NoId == [tag |-> "obj", _id |-> "undefined"]

ArticleObj(id, enabled, stock) ==
    [tag |-> "obj", _id |-> id, enabled |-> enabled, stock |-> stock]

\* ------------------------------------------------------------ the inputs
\* req.cart.articles: lines with distinct article ids and quantity >= 1
CartLines == [articleId : ArticleIds, quantity : 1 .. MaxQuantity]

Carts ==
    { c \in UNION { [1 .. n -> CartLines] : n \in 0 .. MaxLines } :
        \A i, j \in DOMAIN c : i # j => c[i].articleId # c[j].articleId }

\* what the catalog server does with the GET of one line, in a catalog state
Answers ==
    [kind : {"rejected", "noresult", "malformed"}]
        \cup [kind : {"article"}, enabled : BOOLEAN, stock : 0 .. MaxStock]

VARIABLES
    articles,       \* req.cart.articles
    catalog,        \* catalog[i]: the answer to the lookup of line i
    pc,             \* "idle", "waiting" (lookups outstanding), "done", "thrown"
    requests,       \* article ids of the GETs issued by this invocation
    pending,        \* indexes of the lookups that have not called back
    results,        \* async.map's results array
    order,          \* indexes in the order their lookups called back
    validation,     \* req.validation
    writes,         \* assignments to req.validation by this invocation
    nextCalls,      \* calls of next() by this invocation
    prev            \* how the previous invocation on this request ended
                    \* (pc "none": there was none), and the index of the
                    \* lookup that called back first in it

vars == <<articles, catalog, pc, requests, pending, results, order,
          validation, writes, nextCalls, prev>>

\* ------------------------------------------------------------- the lookup
\* data.result of the resolved promise
DataResult(article, answer) ==
    CASE answer.kind = "article" ->
            ArticleObj(article.articleId, answer.enabled, answer.stock)
      [] answer.kind = "malformed" -> NoId
      [] OTHER -> Null

\* variant: the last element is never looked up
RequestsButLast(arts) ==
    [i \in 1 .. (IF Len(arts) > 1 THEN Len(arts) - 1 ELSE Len(arts)) |->
        arts[i].articleId]

\* the GETs issued by async.map: one per element, in order
Requests(arts) == [i \in 1 .. Len(arts) |-> arts[i].articleId]

\* (data) => callback(undefined, data.result)
ThenHandler(data) == [err |-> FALSE, value |-> data]

\* variant: the exception is handed to async.map as its error
CatchHandlerPropagating(exception) == [err |-> TRUE, value |-> NoId]

\* (exception) => callback(undefined, { "_id": undefined })
CatchHandler(exception) == [err |-> FALSE, value |-> NoId]

\* ------------------------------------------------------- the final callback
\* results.find(element => element._id == id), scanning from index k
RECURSIVE FindFrom(_, _, _)
FindFrom(res, id, k) ==
    IF k > Len(res) THEN Undefined
    ELSE IF res[k].tag # "obj" THEN TypeError
    ELSE IF res[k]._id = id THEN res[k]
    ELSE FindFrom(res, id, k + 1)

Find(res, id) == FindFrom(res, id, 1)

\* req.cart.articles.map(article => ({article, result: results.find(...)}))
Join(arts, res) ==
    [i \in 1 .. Len(arts) |->
        [article |-> arts[i], result |-> Find(res, arts[i].articleId)]]

Item(id, message) == [articleId |-> id, message |-> message]

\* variant: the stock test comes before the enabled test
ClassifyElementStockFirst(v, element) ==
    IF element.result.tag = "undefined" THEN
        [v EXCEPT !.errors =
            Append(@, Item(element.article.articleId, "No se encuentra"))]
    ELSE IF element.result.stock < element.article.quantity THEN
        [v EXCEPT !.warnings =
            Append(@, Item(element.article.articleId, "Insuficiente stock"))]
    ELSE IF ~element.result.enabled THEN
        [v EXCEPT !.errors =
            Append(@, Item(element.article.articleId, "Articulo inválido"))]
    ELSE v

\* variant: the stock comparison is <= instead of <
ClassifyElementStockLeq(v, element) ==
    IF element.result.tag = "undefined" THEN
        [v EXCEPT !.errors =
            Append(@, Item(element.article.articleId, "No se encuentra"))]
    ELSE IF ~element.result.enabled THEN
        [v EXCEPT !.errors =
            Append(@, Item(element.article.articleId, "Articulo inválido"))]
    ELSE IF element.result.stock <= element.article.quantity THEN
        [v EXCEPT !.warnings =
            Append(@, Item(element.article.articleId, "Insuficiente stock"))]
    ELSE v

\* variant: the stock test is not in the else branch of the enabled test
ClassifyElementNoElse(v, element) ==
    IF element.result.tag = "undefined" THEN
        [v EXCEPT !.errors =
            Append(@, Item(element.article.articleId, "No se encuentra"))]
    ELSE
        LET w == IF ~element.result.enabled
                 THEN [v EXCEPT !.errors = Append(@,
                          Item(element.article.articleId, "Articulo inválido"))]
                 ELSE v
        IN  IF element.result.stock < element.article.quantity
            THEN [w EXCEPT !.warnings = Append(@,
                     Item(element.article.articleId, "Insuficiente stock"))]
            ELSE w

\* the body of the forEach: what one joined element adds to req.validation
ClassifyElement(v, element) ==
    IF element.result.tag = "undefined" THEN
        [v EXCEPT !.errors =
            Append(@, Item(element.article.articleId, "No se encuentra"))]
    ELSE IF ~element.result.enabled THEN
        [v EXCEPT !.errors =
            Append(@, Item(element.article.articleId, "Articulo inválido"))]
    ELSE IF element.result.stock < element.article.quantity THEN
        [v EXCEPT !.warnings =
            Append(@, Item(element.article.articleId, "Insuficiente stock"))]
    ELSE v

RECURSIVE ForEachFrom(_, _, _)
ForEachFrom(v, joined, k) ==
    IF k > Len(joined) THEN v
    ELSE ForEachFrom(ClassifyElement(v, joined[k]), joined, k + 1)

RECURSIVE ForEachDownFrom(_, _, _)
ForEachDownFrom(v, joined, k) ==
    IF k < 1 THEN v
    ELSE ForEachDownFrom(ClassifyElement(v, joined[k]), joined, k - 1)

\* variant: the joined elements are visited last to first
ForEachBackwards(v, joined) == ForEachDownFrom(v, joined, Len(joined))

\* .forEach(element => ...) over the joined elements, first to last
ForEach(v, joined) == ForEachFrom(v, joined, 1)

\* variant: the report already on the request is kept and appended to
KeptValidation(old) == old

\* req.validation = { errors: [], warnings: [] }
FreshValidation(old) == [errors |-> <<>>, warnings |-> <<>>]

\* (err, results) => { ... }: the state the final callback leaves
FinalCallback(arts, res, old) ==
    LET fresh == FreshValidation(old)
        joined == Join(arts, res)
    IN  IF \E i \in DOMAIN joined : joined[i].result.tag = "TypeError"
        THEN [pc |-> "thrown", validation |-> fresh, nextCalls |-> 0]
        ELSE [pc |-> "done", validation |-> ForEach(fresh, joined),
              nextCalls |-> 1]

\* async.map's per-element callback: an error ends the map at once, a value
\* is stored at the element's index and the map ends with the last one
MapCallback(res, left, i, cb) ==
    IF cb.err THEN [ends |-> TRUE, results |-> res]
    ELSE [ends |-> left = {i}, results |-> [res EXCEPT ![i] = cb.value]]

\* ---------------------------------------------------------------- actions
Init ==
    /\ articles \in Carts
    /\ catalog \in [DOMAIN articles -> Answers]
    /\ pc = "idle"
    /\ requests = <<>>
    /\ pending = {}
    /\ results = <<>>
    /\ order = <<>>
    /\ validation = [errors |-> <<>>, warnings |-> <<>>]
    /\ writes = 0
    /\ nextCalls = 0
    /\ prev = [pc |-> "none", validation |-> validation, first |-> 0]

\* the state after a callback `cb` of line i (or the empty map) was handled
Settle(res, left, ends) ==
    IF ends
    THEN LET f == FinalCallback(articles, res, validation)
         IN  /\ pc' = f.pc
             /\ validation' = f.validation
             /\ nextCalls' = f.nextCalls
             /\ writes' = writes + 1
    ELSE /\ pc' = "waiting"
         /\ UNCHANGED <<validation, nextCalls, writes>>

\* validateOrder(req, res, next): async.map starts every lookup; an empty
\* array ends the map at once
validateOrder ==
    /\ pc # "waiting"
    /\ prev' = [pc |-> IF pc = "idle" THEN "none" ELSE pc,
                validation |-> validation,
                first |-> IF order = <<>> THEN 0 ELSE order[1]]
    /\ requests' = Requests(articles)
    /\ pending' = DOMAIN requests'
    /\ results' = [i \in DOMAIN requests' |-> Hole]
    /\ order' = <<>>
    /\ IF pending' = {}
       THEN LET f == FinalCallback(articles, results', validation)
            IN  /\ pc' = f.pc
                /\ validation' = f.validation
                /\ nextCalls' = f.nextCalls
                /\ writes' = 1
       ELSE /\ pc' = "waiting"
            /\ writes' = 0
            /\ nextCalls' = 0
            /\ UNCHANGED validation
    /\ UNCHANGED <<articles, catalog>>

\* the promise of line i resolves: the then handler runs
LookupResolved(i) ==
    /\ pc = "waiting"
    /\ i \in pending
    /\ catalog[i].kind # "rejected"
    /\ LET m == MapCallback(results, pending, i,
                    ThenHandler(DataResult(articles[i], catalog[i])))
       IN  /\ results' = m.results
           /\ Settle(m.results, pending, m.ends)
    /\ pending' = pending \ {i}
    /\ order' = Append(order, i)
    /\ UNCHANGED <<articles, catalog, requests, prev>>

\* the promise of line i rejects: the catch handler runs
LookupRejected(i) ==
    /\ pc = "waiting"
    /\ i \in pending
    /\ catalog[i].kind = "rejected"
    /\ LET m == MapCallback(results, pending, i, CatchHandler("exception"))
       IN  /\ results' = m.results
           /\ Settle(m.results, pending, m.ends)
    /\ pending' = pending \ {i}
    /\ order' = Append(order, i)
    /\ UNCHANGED <<articles, catalog, requests, prev>>

Next ==
    \/ validateOrder
    \/ \E i \in 1 .. MaxLines : LookupResolved(i)
    \/ \E i \in 1 .. MaxLines : LookupRejected(i)

Spec == Init /\ [][Next]_vars

\* ------------------------------------------------------------ vocabulary
Lines == DOMAIN articles
Settled == pc \in {"done", "thrown"}
Range(seq) == { seq[k] : k \in DOMAIN seq }
Empty == [errors |-> <<>>, warnings |-> <<>>]
IdOf(i) == articles[i].articleId

\* the catalog gave no article for line i: the promise was rejected, or it
\* resolved without an article (404 / empty body / a body that is no article)
NoSnapshot(i) == catalog[i].kind # "article"
Disabled(i) == catalog[i].kind = "article" /\ ~catalog[i].enabled
Enabled(i) == catalog[i].kind = "article" /\ catalog[i].enabled
Short(i) == catalog[i].kind = "article" /\ catalog[i].stock < articles[i].quantity

\* the record a line is meant to get, "none" for a fully valid line
Verdict(i) ==
    IF NoSnapshot(i) THEN [in |-> "errors", message |-> "No se encuentra"]
    ELSE IF Disabled(i) THEN [in |-> "errors", message |-> "Articulo inválido"]
    ELSE IF Short(i) THEN [in |-> "warnings", message |-> "Insuficiente stock"]
    ELSE [in |-> "none", message |-> ""]

RecordsOf(seq, id) == { k \in DOMAIN seq : seq[k].articleId = id }
ClassifiedAsMeant(i) ==
    /\ RecordsOf(validation.errors, IdOf(i)) =
          { k \in DOMAIN validation.errors :
              /\ Verdict(i).in = "errors"
              /\ validation.errors[k] = Item(IdOf(i), Verdict(i).message) }
    /\ RecordsOf(validation.warnings, IdOf(i)) =
          { k \in DOMAIN validation.warnings :
              /\ Verdict(i).in = "warnings"
              /\ validation.warnings[k] = Item(IdOf(i), Verdict(i).message) }
    /\ Verdict(i).in = "errors" => RecordsOf(validation.errors, IdOf(i)) # {}
    /\ Verdict(i).in = "warnings" => RecordsOf(validation.warnings, IdOf(i)) # {}

\* position of an article id in the cart
Pos(id) == CHOOSE i \in Lines : IdOf(i) = id
InCartOrder(seq) ==
    \A a, b \in DOMAIN seq :
        a < b => /\ seq[a].articleId \in { IdOf(i) : i \in Lines }
                 /\ seq[b].articleId \in { IdOf(i) : i \in Lines }
                 /\ Pos(seq[a].articleId) < Pos(seq[b].articleId)

\* ----------------------------------------------------------------- claims

\* C1: once every lookup has called back, a line whose lookup failed (the
\* promise was rejected, or the answer carried no article) is reported as
\* Error "No se encuentra", the invocation has not thrown, and every other
\* line carries exactly the record its own catalog answer calls for.
C1_FailureIsolated ==
    Settled =>
        \A i \in Lines :
            NoSnapshot(i) =>
                /\ pc = "done"
                /\ Item(IdOf(i), "No se encuentra") \in Range(validation.errors)
                /\ \A j \in Lines \ {i} : ClassifiedAsMeant(j)

\* C2: an invocation never ends by throwing; when it has ended it has
\* assigned req.validation once and called next() exactly once, and for a
\* cart without lines the report is {errors: [], warnings: []}.
C2_AlwaysReports ==
    /\ pc # "thrown"
    /\ pc = "done" => /\ nextCalls = 1
                      /\ writes = 1
                      /\ (articles = <<>> => validation = Empty)

\* C3: once every lookup has called back, each line for which the catalog
\* gave no snapshot (rejected or not found) has the entry
\* {articleId, "No se encuentra"} in errors and no entry in warnings.
C3_NotFoundReported ==
    Settled =>
        \A i \in Lines :
            NoSnapshot(i) =>
                /\ Item(IdOf(i), "No se encuentra") \in Range(validation.errors)
                /\ RecordsOf(validation.warnings, IdOf(i)) = {}

\* C4: in a report, each line whose snapshot has enabled = false has the
\* entry {articleId, "Articulo inválido"} in errors and no warning,
\* whatever its stock is.
C4_DisabledIsError ==
    pc = "done" =>
        \A i \in Lines :
            Disabled(i) =>
                /\ Item(IdOf(i), "Articulo inválido") \in Range(validation.errors)
                /\ RecordsOf(validation.warnings, IdOf(i)) = {}

C4_Witness ==
    /\ pc = "done"
    /\ \E i \in Lines : Disabled(i) /\ Short(i)
    /\ \E i \in Lines : Disabled(i) /\ ~Short(i)

\* C5: in a report, a line whose snapshot has enabled = true has no error,
\* and has the warning {articleId, "Insuficiente stock"} exactly when
\* stock < quantity; with stock >= quantity it has no record at all.
C5_StockWarning ==
    pc = "done" =>
        \A i \in Lines :
            Enabled(i) =>
                /\ RecordsOf(validation.errors, IdOf(i)) = {}
                /\ Short(i) <=>
                     Item(IdOf(i), "Insuficiente stock") \in Range(validation.warnings)
                /\ ~Short(i) => RecordsOf(validation.warnings, IdOf(i)) = {}

C5_Witness ==
    /\ pc = "done"
    /\ \E i \in Lines : Enabled(i) /\ Short(i)
    /\ \E i \in Lines : Enabled(i) /\ catalog[i].stock = articles[i].quantity
    /\ \E i \in Lines : Enabled(i) /\ catalog[i].stock > articles[i].quantity

\* C6: in a report, a line has at most one record over errors and warnings
\* together, every record names the article of some line of the cart, and a
\* line has a record only if it is not fully valid.
C6_AtMostOneRecord ==
    pc = "done" =>
        /\ \A i \in Lines :
              LET n == Cardinality(RecordsOf(validation.errors, IdOf(i)))
                       + Cardinality(RecordsOf(validation.warnings, IdOf(i)))
              IN  /\ n <= 1
                  /\ n = 1 => Verdict(i).in # "none"
        /\ \A r \in Range(validation.errors) \cup Range(validation.warnings) :
              \E i \in Lines : r.articleId = IdOf(i)

C6_Witness ==
    /\ pc = "done"
    /\ \E i \in Lines : Disabled(i) /\ Short(i)
    /\ \E i \in Lines : Verdict(i).in = "none"
    /\ \E i \in Lines : Verdict(i).in = "warnings"

\* C7: in a report, errors and warnings each list their records in the
\* order of their lines in the cart, whatever order the lookups called
\* back in.
C7_CartOrder ==
    pc = "done" =>
        /\ InCartOrder(validation.errors)
        /\ InCartOrder(validation.warnings)

C7_Witness ==
    /\ pc = "done"
    /\ Len(validation.errors) >= 2
    /\ Len(order) = 3
    /\ order[1] = 3
    /\ order[3] = 1

\* C8: a later invocation with the same cart and the same catalog answers
\* ends as the first did and leaves the same report, whatever order the
\* lookups called back in and whatever report was on the request.
C8_SameReportAgain ==
    (prev.pc # "none" /\ Settled) =>
        /\ pc = prev.pc
        /\ validation = prev.validation

C8_Witness ==
    /\ pc = "done"
    /\ prev.pc = "done"
    /\ order # <<>>
    /\ prev.first # order[1]
    /\ validation.errors # <<>>
    /\ validation.warnings # <<>>

\* C9: while a lookup of this invocation has not called back, req.validation
\* has not been assigned and next() has not been called, also after another
\* lookup has failed.
C9_Barrier ==
    pending # {} => (writes = 0 /\ nextCalls = 0)

C9_Witness ==
    /\ pc = "waiting"
    /\ pending # {}
    /\ \E i \in Lines \ pending : catalog[i].kind = "rejected"

====
